---- MODULE Spec2Model ----
(***************************************************************************)
(* Model of the MCP server tool analyser (analyser.py): main() loads a     *)
(* configuration, launches one extract_tools_from_server coroutine per     *)
(* configured server, joins them with asyncio.gather(return_exceptions)    *)
(* and writes one report.  Tasks are cooperative: a step of the model is   *)
(* the code a task runs between two suspension points.                     *)
(***************************************************************************)
EXTENDS Integers, Sequences, FiniteSets, TLC

\* Largest number of servers in the mcpServers mapping of a configuration.
MaxServers == 2

\* Python's None; also what os.environ.get returns for a variable not set.
None == "None"
\* A variable that is not in os.environ.
Unset == None
\* A JSON value that is not a string (a number in an env mapping).
NonStr == "#42"

\* No file at OUTPUT_PATH yet.
NoFile == [absent |-> TRUE]
\* extract_server_tools is not being called.
NotCalled == [pc |-> "idle"]
\* The result variable of a coroutine that has not run yet.
NotBuilt == [absent |-> TRUE]

\* Keys of mcpServers, in document order.
ServerNames == <<"alpha", "beta", "gamma", "delta">>
\* A --server argument that is no key of the configuration.
GhostName == "ghost"

\* Environment variable names the configurations mention.
EnvVars == {"X", "Y"}

(***************************************************************************)
(* Python dicts are insertion-ordered: a dict is a sequence of <<key,      *)
(* value>> pairs with distinct keys.                                       *)
(***************************************************************************)
DictKeys(d) == {d[n][1] : n \in 1..Len(d)}

DictGet(d, key, default) ==
    IF key \in DictKeys(d)
    THEN LET n == CHOOSE m \in 1..Len(d) : d[m][1] = key IN d[n][2]
    ELSE default

DictSet(d, key, value) ==
    IF key \in DictKeys(d)
    THEN [n \in 1..Len(d) |-> IF d[n][1] = key THEN <<key, value>> ELSE d[n]]
    ELSE Append(d, <<key, value>>)

\* server_config.get(key, default): a server config is a JSON object, a
\* function whose domain is the set of keys present in the document.
Get(obj, key, default) == IF key \in DOMAIN obj THEN obj[key] ELSE default

\* The tools a server may report from list_tools.
Tool1 == [name |-> "read", description |-> "Read a file",
          inputSchema |-> "schema-read", annotations |-> None]
Tool2 == [name |-> "write", description |-> "Write a file",
          inputSchema |-> "schema-write", annotations |-> "readOnly=false"]
ToolLists == {<< >>, <<Tool2, Tool1>>}

\* The server configurations a document may hold under a name.
ServerConfigChoices ==
    { [command |-> "npx", args |-> <<"-y", "server-fs">>],
      [command |-> "uvx", args |-> <<"srv">>, env |-> << <<"X", "a">> >>],
      [command |-> "node", env |-> << <<"X", "b">>, <<"Y", "c">> >>],
      [args |-> <<"x">>, env |-> << <<"X", "a">> >>],
      [command |-> "python", args |-> << >>,
       env |-> << <<"X", "b">>, <<"Y", NonStr>> >>] }

\* The mcpServers mappings: the first n names, each with one of the configs.
McpServerDocs ==
    UNION { { [i \in 1..n |-> <<ServerNames[i], f[i]>>] :
              f \in [1..n -> ServerConfigChoices] } : n \in 0..MaxServers }

\* The process environment before the run.
InitEnvs == { [v \in EnvVars |-> Unset],
              [v \in EnvVars |-> IF v = "X" THEN "orig" ELSE Unset] }

\* Values of --server: not given, the empty string, an unknown name, or a
\* configured name.
ServerArgs == {None, "", GhostName} \cup {ServerNames[i] : i \in 1..MaxServers}

VARIABLES
    config,        \* the input: [loads, mcpServers], the document at CONFIG_PATH
    args,          \* the command line: [dry_run, server]
    environ0,      \* os.environ before the run
    environ,       \* os.environ, shared by all tasks
    mainPc,        \* main(): "start", "gather", "written", "aborted"
    mcp_servers,   \* main()'s mcp_servers after the --server filter
    pc,            \* per task: "created", "spawn", "init", "list", "close", "done"
    result,        \* per task: the result dict of extract_tools_from_server
    original_env,  \* per task: the original_env dict
    outcome,       \* per task: "pending", "returned" or the exception raised
    fate,          \* per task: how the body ended, [how, at]
    spawned,       \* per task: a subprocess was created
    spawnedForeign,\* per task: its live subprocess was created while a variable
                   \* of its env held another value than the declared one
    session,       \* per task: [initialized, served]: initialize completed, and
                   \* the tools the server reported to list_tools
    doneOrder,     \* task indices in the order the tasks completed
    prevOutput,    \* the document an earlier run left at OUTPUT_PATH, if any
    xt,            \* the frame of a call of extract_server_tools (extract_tools.py)
    output         \* the document written to OUTPUT_PATH, NoFile before

vars == <<config, args, environ0, environ, mainPc, mcp_servers, pc, result,
          original_env, outcome, fate, spawned, spawnedForeign, session,
          doneOrder, output, prevOutput, xt>>

inputs == <<config, args, environ0>>

Tasks == 1..Len(pc)

Init ==
    /\ config \in [loads : BOOLEAN, mcpServers : McpServerDocs]
    /\ args \in [dry_run : BOOLEAN, server : ServerArgs]
    /\ environ0 \in InitEnvs
    /\ environ = environ0
    /\ mainPc = "start"
    /\ mcp_servers = << >>
    /\ pc = << >>
    /\ result = << >>
    /\ original_env = << >>
    /\ outcome = << >>
    /\ fate = << >>
    /\ spawned = << >>
    /\ spawnedForeign = << >>
    /\ session = << >>
    /\ doneOrder = << >>
    /\ output = NoFile
    /\ prevOutput = NoFile
    /\ xt = NotCalled

(***************************************************************************)
(* main(), from its start to the await of asyncio.gather: no suspension    *)
(* point lies in between.                                                  *)
(***************************************************************************)
\* if args.server: a --server that is None (not given) or the empty string
\* is falsy.
FilterGiven(server) == server # None /\ server # ""

\* The mcp_servers mapping after the --server filter.
FilterServers(servers, server) ==
    IF FilterGiven(server)
    THEN << <<server, DictGet(servers, server, None)>> >>
    ELSE servers

\* The filter names a server that is not in the configuration.
FilterMissing(servers, server) ==
    FilterGiven(server) /\ server \notin DictKeys(servers)

MainStart ==
    /\ mainPc = "start"
    /\ IF ~config.loads \/ FilterMissing(config.mcpServers, args.server)
       THEN /\ mainPc' = "aborted"
            /\ UNCHANGED <<mcp_servers, pc, result, original_env, outcome,
                           fate, spawned, spawnedForeign, session>>
       ELSE LET servers == FilterServers(config.mcpServers, args.server)
                n == Len(servers)
            IN /\ mcp_servers' = servers
               /\ pc' = [i \in 1..n |-> "created"]
               /\ result' = [i \in 1..n |-> NotBuilt]
               /\ original_env' = [i \in 1..n |-> << >>]
               /\ outcome' = [i \in 1..n |-> "pending"]
               /\ fate' = [i \in 1..n |-> [how |-> "none", at |-> "none"]]
               /\ spawned' = [i \in 1..n |-> FALSE]
               /\ spawnedForeign' = [i \in 1..n |-> FALSE]
               /\ session' = [i \in 1..n |-> [initialized |-> FALSE, served |-> << >>]]
               /\ mainPc' = "gather"
    /\ UNCHANGED <<inputs, prevOutput, xt, environ, doneOrder, output>>

(***************************************************************************)
(* extract_tools_from_server                                               *)
(***************************************************************************)
\* The base result built from the server config.
BaseResult(server_name, server_config) ==
    [server_name |-> server_name,
     command |-> Get(server_config, "command", None),
     args |-> Get(server_config, "args", << >>),
     env |-> Get(server_config, "env", << >>),
     tools |-> << >>]

\* Mutant: the dry_run flag is ignored.
SkipsConnectionNever(dry_run) == FALSE

\* if dry_run: return result
SkipsConnection(dry_run) == dry_run

\* os.environ[key] = value accepts only a str.
IsStr(value) == value # NonStr /\ value # None

\* Mutant: a variable that is already set is left as it is.
RECURSIVE ApplyEnvKeepExisting(_, _, _, _)
ApplyEnvKeepExisting(env, n, e, orig) ==
    IF n > Len(env)
    THEN [environ |-> e, original_env |-> orig, raised |-> FALSE]
    ELSE LET key == env[n][1]
             value == env[n][2]
             saved == DictSet(orig, key, e[key])
         IN IF ~IsStr(value)
            THEN [environ |-> e, original_env |-> saved, raised |-> TRUE]
            ELSE ApplyEnvKeepExisting(env, n + 1,
                     IF e[key] = Unset THEN [e EXCEPT ![key] = value] ELSE e,
                     saved)

\* The loop that sets the environment variables, from the n-th item of env:
\* it saves os.environ.get(key), then writes; a value that is no str raises
\* TypeError at the write, after the save.
RECURSIVE ApplyEnv(_, _, _, _)
ApplyEnv(env, n, e, orig) ==
    IF n > Len(env)
    THEN [environ |-> e, original_env |-> orig, raised |-> FALSE]
    ELSE LET key == env[n][1]
             value == env[n][2]
             saved == DictSet(orig, key, e[key])
         IN IF ~IsStr(value)
            THEN [environ |-> e, original_env |-> saved, raised |-> TRUE]
            ELSE ApplyEnv(env, n + 1, [e EXCEPT ![key] = value], saved)

\* The finally block: restore the saved variables, from the n-th item.
RECURSIVE RestoreEnv(_, _, _)
RestoreEnv(orig, n, e) ==
    IF n > Len(orig)
    THEN e
    ELSE LET key == orig[n][1]
             value == orig[n][2]
         IN RestoreEnv(orig, n + 1,
                IF value = None
                THEN IF e[key] # Unset THEN [e EXCEPT ![key] = Unset] ELSE e
                ELSE [e EXCEPT ![key] = value])

\* StdioServerParameters(command=command, args=args) validates its fields:
\* command must be a str, so a config without "command" raises.
ParamsValid(command) == command # None

\* Mutant: the tools are collected in reverse order.
ExtractToolsReversed(reply) ==
    [n \in 1..Len(reply) |->
        [name |-> reply[Len(reply) + 1 - n].name,
         description |-> reply[Len(reply) + 1 - n].description,
         inputSchema |-> reply[Len(reply) + 1 - n].inputSchema,
         annotations |-> reply[Len(reply) + 1 - n].annotations]]

\* The tools appended to result["tools"] from the list_tools reply.
ExtractTools(reply) ==
    [n \in 1..Len(reply) |->
        [name |-> reply[n].name,
         description |-> reply[n].description,
         inputSchema |-> reply[n].inputSchema,
         annotations |-> reply[n].annotations]]

\* Mutant: the awaited steps are not bounded by a timeout.
RepliesWithoutTimeout == {"ok", "error"}

\* What an awaited step of the session can end with.
Replies == {"ok", "error", "timeout"}

\* Mutant: an expired timeout cancels every task of the run.
CancelledByTimeoutAll(i) == Tasks

\* The tasks that stop running when task i's timeout expires: asyncio.timeout
\* cancels the task that entered the block, and no other.
CancelledByTimeout(i) == {i}

\* Task i raises exc past extract_tools_from_server; e is os.environ then.
Raise(i, exc, how, e) ==
    /\ pc' = [pc EXCEPT ![i] = "done"]
    /\ outcome' = [outcome EXCEPT ![i] = exc]
    /\ fate' = [fate EXCEPT ![i] = [how |-> how, at |-> "start"]]
    /\ environ' = e
    /\ doneOrder' = Append(doneOrder, i)

\* The except clauses, return result and the finally block: the failure is
\* logged, result is returned as it stands and the environment is restored.
\* A timeout ends the tasks of CancelledByTimeout(i).
Return(i, how, at) ==
    LET ending == IF how = "timeout" THEN CancelledByTimeout(i) ELSE {i}
        others == {j \in ending \ {i} : pc[j] # "done"}
    IN /\ pc' = [j \in Tasks |-> IF j \in ending THEN "done" ELSE pc[j]]
       /\ outcome' = [j \in Tasks |->
                        IF j = i THEN "returned"
                        ELSE IF j \in others THEN "CancelledError"
                        ELSE outcome[j]]
       /\ fate' = [j \in Tasks |->
                     IF j = i THEN [how |-> how, at |-> at]
                     ELSE IF j \in others THEN [how |-> "cancelled", at |-> pc[j]]
                     ELSE fate[j]]
       /\ environ' = RestoreEnv(original_env[i], 1, environ)
       /\ spawnedForeign' = [j \in Tasks |-> spawnedForeign[j] /\ j \notin ending]
       /\ doneOrder' = Append(doneOrder, i)

\* The first step of a task, up to the first suspension (entering
\* stdio_client).  gather schedules the tasks in the order of its arguments.
StartTask(i) ==
    /\ mainPc = "gather"
    /\ pc[i] = "created"
    /\ \A j \in 1..(i - 1) : pc[j] # "created"
    /\ LET base == BaseResult(mcp_servers[i][1], mcp_servers[i][2])
           applied == ApplyEnv(base.env, 1, environ, << >>)
       IN /\ result' = [result EXCEPT ![i] = base]
          /\ IF SkipsConnection(args.dry_run)
             THEN /\ pc' = [pc EXCEPT ![i] = "done"]
                  /\ outcome' = [outcome EXCEPT ![i] = "returned"]
                  /\ fate' = [fate EXCEPT ![i] = [how |-> "dry", at |-> "start"]]
                  /\ doneOrder' = Append(doneOrder, i)
                  /\ UNCHANGED <<environ, original_env>>
             ELSE /\ original_env' = [original_env EXCEPT ![i] = applied.original_env]
                  /\ IF applied.raised
                     THEN Raise(i, "TypeError", "env_error", applied.environ)
                     ELSE IF ~ParamsValid(base.command)
                     THEN Raise(i, "ValidationError", "params_error",
                                RestoreEnv(applied.original_env, 1, applied.environ))
                     ELSE /\ pc' = [pc EXCEPT ![i] = "spawn"]
                          /\ environ' = applied.environ
                          /\ UNCHANGED <<outcome, fate, doneOrder>>
    /\ UNCHANGED <<inputs, prevOutput, xt, mainPc, mcp_servers, spawned, spawnedForeign, session,
                   output>>

\* Every variable of task i's env mapping holds, in os.environ, the value
\* the mapping declares.
HoldsOwnEnv(i) ==
    \A n \in 1..Len(result[i].env) :
        environ[result[i].env[n][1]] = result[i].env[n][2]

\* async with stdio_client(server_params): the subprocess is created.
Connect(i) ==
    /\ pc[i] = "spawn"
    /\ \E reply \in Replies :
         IF reply = "ok"
         THEN /\ pc' = [pc EXCEPT ![i] = "init"]
              /\ spawned' = [spawned EXCEPT ![i] = TRUE]
              /\ spawnedForeign' = [spawnedForeign EXCEPT ![i] = ~HoldsOwnEnv(i)]
              /\ UNCHANGED <<outcome, fate, environ, doneOrder>>
         ELSE /\ Return(i, reply, "spawn")
              /\ UNCHANGED spawned
    /\ UNCHANGED <<inputs, prevOutput, xt, mainPc, mcp_servers, result, original_env, session,
                   output>>

\* await session.initialize()
Initialize(i) ==
    /\ pc[i] = "init"
    /\ \E reply \in Replies :
         IF reply = "ok"
         THEN /\ pc' = [pc EXCEPT ![i] = "list"]
              /\ session' = [session EXCEPT ![i].initialized = TRUE]
              /\ UNCHANGED <<outcome, fate, environ, spawnedForeign, doneOrder>>
         ELSE /\ Return(i, reply, "init")
              /\ UNCHANGED session
    /\ UNCHANGED <<inputs, prevOutput, xt, mainPc, mcp_servers, result, original_env, spawned, output>>

\* tools = await session.list_tools(), and the loop over tools.tools.
ListTools(i) ==
    /\ pc[i] = "list"
    /\ \/ \E reply \in ToolLists :
            /\ result' = [result EXCEPT ![i].tools = result[i].tools \o ExtractTools(reply)]
            /\ session' = [session EXCEPT ![i].served = reply]
            /\ pc' = [pc EXCEPT ![i] = "close"]
            /\ UNCHANGED <<outcome, fate, environ, spawnedForeign, doneOrder>>
       \/ \E reply \in Replies \ {"ok"} :
            /\ Return(i, reply, "list")
            /\ UNCHANGED <<result, session>>
    /\ UNCHANGED <<inputs, prevOutput, xt, mainPc, mcp_servers, original_env, spawned, output>>

\* Leaving ClientSession and stdio_client, still inside asyncio.timeout.
CloseSession(i) ==
    /\ pc[i] = "close"
    /\ \E reply \in Replies : Return(i, reply, "close")
    /\ UNCHANGED <<inputs, prevOutput, xt, mainPc, mcp_servers, result, original_env, spawned, session,
                   output>>

(***************************************************************************)
(* main(), from the return of asyncio.gather to the written report.        *)
(***************************************************************************)
\* Exception classes; CancelledError derives from BaseException only.
ExceptionTypes == {"TypeError", "ValidationError"}

\* What a finished task hands to gather: its return value or its exception.
TaskValue(i) ==
    IF outcome[i] = "returned"
    THEN [kind |-> "value", value |-> result[i], type |-> None]
    ELSE [kind |-> "raised", value |-> NotBuilt, type |-> outcome[i]]

\* Mutant: the outcomes are listed in completion order.
GatherOrderByCompletion == doneOrder

\* The order in which gather lists the outcomes: the order of its arguments.
GatherOrder == [i \in Tasks |-> i]

\* Mutant: gather without return_exceptions.
ReturnExceptionsOff == FALSE

\* gather's return_exceptions argument: an exception of a task is an element
\* of the result list; without it the first exception is raised into main().
ReturnExceptions == TRUE

\* results = await asyncio.gather(*tasks, return_exceptions=True)
GatherResults == [n \in 1..Len(GatherOrder) |-> TaskValue(GatherOrder[n])]

\* isinstance(result, Exception)
IsException(r) == r.kind = "raised" /\ r.type \in ExceptionTypes

\* What the filter loop appends for an outcome that is no Exception: the
\* result, or the exception object itself.
Kept(r) == IF r.kind = "value" THEN r.value ELSE [exception |-> r.type]

\* The loop that filters out exceptions.
RECURSIVE FilterResults(_, _)
FilterResults(results, n) ==
    IF n > Len(results)
    THEN << >>
    ELSE IF IsException(results[n])
         THEN FilterResults(results, n + 1)
         ELSE <<Kept(results[n])>> \o FilterResults(results, n + 1)

\* Mutant: the count is taken before the --server filter.
ServersProcessedUnfiltered == Len(config.mcpServers)

\* metadata.servers_processed
ServersProcessed == Len(mcp_servers)

\* Mutant: the report is appended to the servers of the file already there.
ReportAppending(server_results) ==
    [metadata |-> [servers_processed |-> ServersProcessed,
                   servers_successful |-> Len(server_results)],
     servers |-> (IF output = NoFile THEN << >> ELSE output.servers)
                    \o server_results]

\* The output document (timestamp and duration left out).
Report(server_results) ==
    [metadata |-> [servers_processed |-> ServersProcessed,
                   servers_successful |-> Len(server_results)],
     servers |-> server_results]

\* MCPEncoder.default: an object json cannot serialise is written as its
\* __dict__, which for an exception object is the empty object {}.
MCPEncoder(obj) == IF "exception" \in DOMAIN obj THEN << >> ELSE obj

\* json.dump(output, f, indent=2, cls=MCPEncoder): the document in the file.
Dump(doc) ==
    [doc EXCEPT !.servers = [n \in 1..Len(doc.servers) |-> MCPEncoder(doc.servers[n])]]

\* Mutant: main resumes as soon as one task has settled.
FirstSettled == \E i \in Tasks : pc[i] = "done"

\* await asyncio.gather(...): main resumes when every task has settled.
AllSettled == \A i \in Tasks : pc[i] = "done"

Gather ==
    /\ mainPc = "gather"
    /\ AllSettled
    /\ IF ~ReturnExceptions /\ \E i \in Tasks : outcome[i] # "returned"
       THEN /\ mainPc' = "aborted"
            /\ UNCHANGED output
       ELSE /\ output' = Dump(Report(FilterResults(GatherResults, 1)))
            /\ mainPc' = "written"
    /\ UNCHANGED <<inputs, prevOutput, xt, environ, mcp_servers, pc, result, original_env,
                   outcome, fate, spawned, spawnedForeign, session, doneOrder>>

Next ==
    \/ MainStart
    \/ \E i \in Tasks : StartTask(i)
    \/ \E i \in Tasks : Connect(i)
    \/ \E i \in Tasks : Initialize(i)
    \/ \E i \in Tasks : ListTools(i)
    \/ \E i \in Tasks : CloseSession(i)
    \/ Gather

Spec == Init /\ [][Next]_vars

\* The program is run a second time, with --dry-run, on the same config
\* file and arguments: a fresh process, started from the same environment,
\* that finds the output file of the first run on disk.  prevOutput keeps
\* what the first run wrote.
Rerun ==
    /\ mainPc = "written"
    /\ args.dry_run
    /\ prevOutput = NoFile
    /\ prevOutput' = output
    /\ mainPc' = "start"
    /\ environ' = environ0
    /\ mcp_servers' = << >>
    /\ pc' = << >>
    /\ result' = << >>
    /\ original_env' = << >>
    /\ outcome' = << >>
    /\ fate' = << >>
    /\ spawned' = << >>
    /\ spawnedForeign' = << >>
    /\ session' = << >>
    /\ doneOrder' = << >>
    /\ UNCHANGED <<inputs, output, xt>>

RerunNext ==
    \/ Next
    \/ Rerun

RerunSpec == Init /\ [][RerunNext]_vars

\* Task i is cancelled from outside the coroutine: by task.cancel() of code
\* that holds the task, or by gather when main itself is cancelled (the
\* SIGINT handler of asyncio.run), not by its own timeout.  A task that has
\* not run yet ends cancelled at its first step, in the order of the tasks,
\* without running a line: result is never built and nothing is written.  A
\* task that waits inside the asyncio.timeout block gets CancelledError,
\* which derives from BaseException: it passes except asyncio.TimeoutError
\* and except Exception, the finally block restores the environment, and
\* the task ends cancelled.
Cancel(i) ==
    /\ mainPc = "gather"
    /\ \/ pc[i] \in {"spawn", "init", "list", "close"}
       \/ pc[i] = "created" /\ \A j \in 1..(i - 1) : pc[j] # "created"
    /\ pc' = [pc EXCEPT ![i] = "done"]
    /\ outcome' = [outcome EXCEPT ![i] = "CancelledError"]
    /\ fate' = [fate EXCEPT ![i] = [how |-> "cancelled", at |-> pc[i]]]
    /\ environ' = RestoreEnv(original_env[i], 1, environ)
    /\ spawnedForeign' = [spawnedForeign EXCEPT ![i] = FALSE]
    /\ doneOrder' = Append(doneOrder, i)
    /\ UNCHANGED <<inputs, prevOutput, xt, mainPc, mcp_servers, result, original_env,
                   spawned, session, output>>

\* main itself was cancelled (SIGINT under asyncio.run): before its first
\* step it ends without running; at await asyncio.gather it resumes, once
\* every task has settled, with CancelledError: the lines after the gather
\* do not run and no file is written.
MainCancelled ==
    /\ \/ mainPc = "start"
       \/ mainPc = "gather" /\ AllSettled
    /\ mainPc' = "ended"
    /\ UNCHANGED <<inputs, prevOutput, xt, environ, mcp_servers, pc, result,
                   original_env, outcome, fate, spawned, spawnedForeign, session,
                   doneOrder, output>>

CancelNext ==
    \/ Next
    \/ \E i \in Tasks : Cancel(i)
    \/ MainCancelled

\* The program run where its tasks and main can be cancelled from outside.
CancelSpec == Init /\ [][CancelNext]_vars

\* The timeout of task i expires while the task waits inside the
\* asyncio.timeout block.
Expire(i) ==
    /\ i \in Tasks
    /\ Connect(i) \/ Initialize(i) \/ ListTools(i) \/ CloseSession(i)
    /\ fate'[i].how = "timeout"

\* The event loop runs every task that is ready (main and the first step of
\* each task) and fires every armed timer; whether a server ever answers is
\* not assumed.
FairSpec ==
    /\ Spec
    /\ WF_vars(MainStart)
    /\ WF_vars(Gather)
    /\ \A i \in 1..MaxServers : WF_vars(i \in Tasks /\ StartTask(i))
    /\ \A i \in 1..MaxServers : WF_vars(Expire(i))

(***************************************************************************)
(* extract_tools.py: extract_server_tools(config_path, set_env_vars), run   *)
(* as a script of its own on either the original config file or the file   *)
(* the analyser wrote.  xt is the frame of the call: the loaded config, the *)
(* flag, os.environ before and now, the one original_env dict of the call,  *)
(* the index n of the next server and the list server_tools.                *)
(***************************************************************************)
\* Files in the original format: {"mcpServers": {...}}.
OriginalDocs == { [mcpServers |-> d] : d \in McpServerDocs }

\* Files in the processed format, as the analyser writes them:
\* {"servers": [...]}, each entry a result with its tools.
ProcessedDocs ==
    UNION { { [servers |-> [i \in 1..Len(d) |->
                  [BaseResult(d[i][1], d[i][2]) EXCEPT !.tools = t[i]]]] :
              t \in [1..Len(d) -> {ExtractTools(l) : l \in ToolLists}] } :
            d \in McpServerDocs }

\* The servers the loop iterates over, as <<server_name, server>> pairs.
XtServers(doc) ==
    IF "mcpServers" \in DOMAIN doc
    THEN doc.mcpServers
    ELSE [i \in 1..Len(Get(doc, "servers", << >>)) |->
            <<Get(doc.servers[i], "server_name", "unknown"), doc.servers[i]>>]

\* for key, value in env.items(): original_env[key] = os.environ.get(key);
\* os.environ[key] = value, from the n-th item.  original_env is the dict
\* shared by all servers of the call.
RECURSIVE XtSetEnv(_, _, _, _)
XtSetEnv(env, n, e, orig) ==
    IF n > Len(env)
    THEN [environ |-> e, original_env |-> orig, raised |-> FALSE]
    ELSE LET key == env[n][1]
             value == env[n][2]
             saved == DictSet(orig, key, e[key])
         IN IF ~IsStr(value)
            THEN [environ |-> e, original_env |-> saved, raised |-> TRUE]
            ELSE XtSetEnv(env, n + 1, [e EXCEPT ![key] = value], saved)

\* The finally block of extract_server_tools, from the n-th saved item.
RECURSIVE XtRestoreEnv(_, _, _)
XtRestoreEnv(orig, n, e) ==
    IF n > Len(orig)
    THEN e
    ELSE LET key == orig[n][1]
             value == orig[n][2]
         IN XtRestoreEnv(orig, n + 1,
                IF value = None
                THEN IF e[key] # Unset THEN [e EXCEPT ![key] = Unset] ELSE e
                ELSE [e EXCEPT ![key] = value])

\* The ToolInfo tuples one server contributes.
XtToolInfos(doc, server_name, server) ==
    IF "mcpServers" \in DOMAIN doc
    THEN << [server_name |-> server_name, tool_name |-> "", description |-> ""] >>
    ELSE LET tools == Get(server, "tools", << >>)
         IN [m \in 1..Len(tools) |->
                [server_name |-> server_name,
                 tool_name |-> Get(tools[m], "name", "unknown"),
                 description |-> Get(tools[m], "description", "")]]

\* All variables of the analyser run; extract_server_tools touches none.
mainVars == <<config, args, environ0, environ, mainPc, mcp_servers, pc, result,
              original_env, outcome, fate, spawned, spawnedForeign, session,
              doneOrder, output, prevOutput>>

ExtractInit ==
    /\ config = [loads |-> TRUE, mcpServers |-> << >>]
    /\ args = [dry_run |-> FALSE, server |-> None]
    /\ environ0 = [v \in EnvVars |-> Unset]
    /\ environ = environ0
    /\ mainPc = "idle"
    /\ mcp_servers = << >>
    /\ pc = << >>
    /\ result = << >>
    /\ original_env = << >>
    /\ outcome = << >>
    /\ fate = << >>
    /\ spawned = << >>
    /\ spawnedForeign = << >>
    /\ session = << >>
    /\ doneOrder = << >>
    /\ output = NoFile
    /\ prevOutput = NoFile
    /\ \E doc \in OriginalDocs \cup ProcessedDocs, flag \in BOOLEAN, e \in InitEnvs :
         xt = [pc |-> "loop", config |-> doc, set_env_vars |-> flag,
               environ0 |-> e, environ |-> e, original_env |-> << >>,
               n |-> 1, server_tools |-> << >>, raised |-> FALSE]

\* One iteration of the for loop over the servers: set the variables of the
\* server's env, then append its ToolInfo tuples.  A TypeError at a write
\* leaves the loop for the finally block.
XtLoop ==
    /\ xt.pc = "loop"
    /\ xt.n <= Len(XtServers(xt.config))
    /\ LET server_name == XtServers(xt.config)[xt.n][1]
           server == XtServers(xt.config)[xt.n][2]
           env == IF xt.set_env_vars /\ "env" \in DOMAIN server
                  THEN Get(server, "env", << >>)
                  ELSE << >>
           r == XtSetEnv(env, 1, xt.environ, xt.original_env)
       IN xt' = IF r.raised
                THEN [xt EXCEPT !.environ = r.environ,
                                !.original_env = r.original_env,
                                !.raised = TRUE,
                                !.pc = "finally"]
                ELSE [xt EXCEPT !.environ = r.environ,
                                !.original_env = r.original_env,
                                !.server_tools =
                                    @ \o XtToolInfos(xt.config, server_name, server),
                                !.n = @ + 1]
    /\ UNCHANGED mainVars

\* return server_tools: the loop is over, control enters the finally block.
XtReturn ==
    /\ xt.pc = "loop"
    /\ xt.n > Len(XtServers(xt.config))
    /\ xt' = [xt EXCEPT !.pc = "finally"]
    /\ UNCHANGED mainVars

\* finally: restore the saved variables if set_env_vars; then the call
\* returns, or the TypeError propagates.
XtFinally ==
    /\ xt.pc = "finally"
    /\ xt' = [xt EXCEPT
                !.environ = IF xt.set_env_vars
                            THEN XtRestoreEnv(xt.original_env, 1, xt.environ)
                            ELSE xt.environ,
                !.pc = IF xt.raised THEN "raised" ELSE "returned"]
    /\ UNCHANGED mainVars

ExtractNext ==
    \/ XtLoop
    \/ XtReturn
    \/ XtFinally

ExtractSpec == ExtractInit /\ [][ExtractNext]_vars

(***************************************************************************)
(* Properties                                                              *)
(***************************************************************************)
AllDone == mainPc \in {"gather", "written"} /\ \A i \in Tasks : pc[i] = "done"

Written == mainPc = "written"

\* The task launched for the n-th entry of the report, found by its name.
EntriesNamed(name) ==
    {n \in 1..Len(output.servers) : output.servers[n].server_name = name}

\* Every env value of the configuration is a string, as the configuration
\* format requires.
WellTypedConfig ==
    \A n \in 1..Len(config.mcpServers) :
        LET env == Get(config.mcpServers[n][2], "env", << >>)
        IN \A m \in 1..Len(env) : IsStr(env[m][2])

\* C1: in a dry run the environment always equals its initial value, no
\* subprocess is ever spawned, and the written report has one entry per
\* server considered (all N when no filter is given), each with no tools.
C1_DryRunNoSideEffects ==
    args.dry_run =>
        /\ environ = environ0
        /\ \A i \in Tasks : ~spawned[i]
        /\ Written =>
             /\ Len(output.servers) = Len(mcp_servers)
             /\ args.server = None => Len(output.servers) = Len(config.mcpServers)
             /\ \A n \in 1..Len(output.servers) : output.servers[n].tools = << >>

\* A dry run over two servers, one of which declares environment variables,
\* has written its report.
C1_Witness ==
    /\ args.dry_run
    /\ Written
    /\ Len(output.servers) >= 2
    /\ \E n \in 1..Len(output.servers) : output.servers[n].env # << >>

\* C2: once every extraction of a run has completed, every environment
\* variable has the value it had before the run (unset if it was unset),
\* for configurations whose env values are strings.
C2_EnvRestoredAfterRun ==
    (WellTypedConfig /\ AllDone) => environ = environ0

\* C3: a task whose timeout expired, at whatever step of the guarded block,
\* has returned (not raised) a result whose tools list is empty.
C3_TimeoutGivesEmptyTools ==
    \A i \in Tasks :
        fate[i].how = "timeout" =>
            /\ outcome[i] = "returned"
            /\ result[i].tools = << >>

\* C4: a non-dry-run extraction that failed otherwise than by a timeout
\* during connect, handshake or listing has returned (not raised) the base
\* result of its config: names, command, args and env echoed, no tools.
C4_FailureAbsorbed ==
    \A i \in Tasks :
        ( /\ pc[i] = "done"
          /\ fate[i].how \notin {"ok", "dry"}
          /\ ~(fate[i].how = "timeout" /\ fate[i].at \in {"spawn", "init", "list"}) )
        => /\ outcome[i] = "returned"
           /\ result[i] = BaseResult(mcp_servers[i][1], mcp_servers[i][2])

\* C5: a step in which the timeout of task i expires leaves the position,
\* the outcome and the result of every other task unchanged, and the report
\* carries the result of every task that returned exactly as that task
\* built it.
C5_Independence ==
    [][ /\ \A i \in Tasks :
             (fate[i].how # "timeout" /\ fate'[i].how = "timeout") =>
                 \A j \in Tasks \ {i} :
                     /\ pc'[j] = pc[j]
                     /\ outcome'[j] = outcome[j]
                     /\ result'[j] = result[j]
        /\ (mainPc = "gather" /\ mainPc' = "written") =>
             \A j \in Tasks :
                 outcome[j] = "returned" =>
                     \E n \in 1..Len(output'.servers) :
                         output'.servers[n] = result[j]
      ]_vars

\* One task timed out while another, which finished after it, listed its
\* tools and has them in the written report.
C5_Witness ==
    /\ Written
    /\ \E i, j \in Tasks :
         /\ i # j
         /\ fate[i].how = "timeout"
         /\ fate[j].how = "ok"
         /\ doneOrder[1] = i
         /\ \E n \in 1..Len(output.servers) :
              /\ output.servers[n] = result[j]
              /\ output.servers[n].tools # << >>

\* The position of a server name in the (filtered) configuration.
ConfigIndex(name) ==
    CHOOSE n \in 1..Len(mcp_servers) : mcp_servers[n][1] = name

\* C6: the servers of the report are in configuration order: of two entries
\* the earlier one belongs to the server configured earlier.
C6_ConfigOrder ==
    Written =>
        \A m, n \in 1..Len(output.servers) :
            m < n => ConfigIndex(output.servers[m].server_name)
                       < ConfigIndex(output.servers[n].server_name)

\* Two servers are in the report and the one configured second finished
\* first.
C6_Witness ==
    /\ Written
    /\ Len(output.servers) >= 2
    /\ doneOrder[1] = 2

\* The tasks that completed without raising.
ReturnedTasks == {i \in Tasks : outcome[i] = "returned"}

\* C7: in a written report servers_processed is the number of configs after
\* the filter, servers_successful is the number of tasks that returned and
\* the length of servers, and is at most servers_processed; a task that
\* timed out or failed to connect is counted.
C7_Counts ==
    Written =>
        /\ output.metadata.servers_processed =
             (IF FilterGiven(args.server) THEN 1 ELSE Len(config.mcpServers))
        /\ output.metadata.servers_processed = Len(pc)
        /\ output.metadata.servers_successful = Cardinality(ReturnedTasks)
        /\ output.metadata.servers_successful = Len(output.servers)
        /\ output.metadata.servers_successful <= output.metadata.servers_processed
        /\ \A i \in Tasks : fate[i].how \in {"timeout", "error"} => i \in ReturnedTasks

\* A filtered run of a configuration of several servers wrote a report whose
\* only server timed out and is counted as successful.
C7_Witness ==
    /\ Written
    /\ Len(config.mcpServers) >= 2
    /\ FilterGiven(args.server)
    /\ fate[1].how = "timeout"
    /\ output.metadata.servers_successful = 1

\* C8: the written report has exactly one entry for every server considered.
C8_OneResultPerServer ==
    Written =>
        \A name \in DictKeys(mcp_servers) : Cardinality(EntriesNamed(name)) = 1

\* C9: an exception of a task never aborts the run (the run aborts only
\* before any task exists); in the written report the server of a task that
\* raised has no entry and every task that returned has its result.
C9_RaisedTaskDropped ==
    /\ mainPc = "aborted" => Len(pc) = 0
    /\ Written =>
         \A i \in Tasks :
             IF outcome[i] = "returned"
             THEN \E n \in 1..Len(output.servers) : output.servers[n] = result[i]
             ELSE EntriesNamed(mcp_servers[i][1]) = {}

\* One task raised and another returned; the report is written and holds
\* the entry of the one that returned.
C9_Witness ==
    /\ Written
    /\ \E i, j \in Tasks :
         /\ outcome[i] \in ExceptionTypes
         /\ outcome[j] = "returned"
         /\ EntriesNamed(mcp_servers[j][1]) # {}

\* C10: with --server naming a configured server, one task was launched and
\* the written report holds exactly one entry, the one of that server, with
\* servers_processed = 1.
C10_FilterOneEntry ==
    (Written /\ FilterGiven(args.server)
        /\ args.server \in DictKeys(config.mcpServers)) =>
        /\ Len(pc) = 1
        /\ output.metadata.servers_processed = 1
        /\ Len(output.servers) = 1
        /\ output.servers[1].server_name = args.server

\* The run has a configuration error: the document does not load, or
\* --server is given and its value is no server of the configuration.
ConfigurationError ==
    \/ ~config.loads
    \/ (args.server # None /\ args.server \notin DictKeys(config.mcpServers))

\* C11: a run with a configuration error never launches a task, never
\* spawns a subprocess, never writes an environment variable and never
\* writes the output file; it can only abort.
C11_ConfigErrorFatal ==
    ConfigurationError =>
        /\ mainPc \in {"start", "aborted"}
        /\ Len(pc) = 0
        /\ \A i \in Tasks : ~spawned[i]
        /\ environ = environ0
        /\ output = NoFile

\* The tasks whose extraction failed: a timeout, a connect or protocol
\* failure, or an exception that left the task.
FailedTasks ==
    {i \in Tasks : fate[i].how \in {"timeout", "error", "params_error", "env_error"}}

\* C12: in a written report servers_successful < servers_processed exactly
\* when the extraction of at least one server failed; with no failure the
\* two counts are equal.
C12_CountsRevealFailure ==
    Written =>
        /\ FailedTasks # {} =>
             output.metadata.servers_successful < output.metadata.servers_processed
        /\ FailedTasks = {} =>
             output.metadata.servers_successful = output.metadata.servers_processed

\* C13: the output is written only when every launched task has settled:
\* whenever the report exists, no task is still created, connecting,
\* handshaking, listing or closing (the environment is restored in the step
\* that settles a task).
C13_FanInBarrier ==
    Written =>
        \A i \in Tasks :
            /\ pc[i] = "done"
            /\ outcome[i] # "pending"

\* The report of a run of two servers is written; the two tasks went through
\* the connection and settled at different times.
C13_Witness ==
    /\ Written
    /\ Len(pc) >= 2
    /\ \A i \in Tasks : spawned[i]
    /\ doneOrder[1] = 2

\* C14: a run without configuration error eventually writes its report,
\* even if servers never answer: every task settles at the latest when its
\* timeout expires, and main then passes the barrier.
C14_Termination ==
    (mainPc = "start" /\ ~ConfigurationError) ~> Written

\* The report is written after a server did not answer the spawn and another
\* did not answer list_tools: both tasks were settled by their timeouts.
C14_Witness ==
    /\ Written
    /\ Len(pc) >= 2
    /\ fate[1] = [how |-> "timeout", at |-> "spawn"]
    /\ fate[2] = [how |-> "timeout", at |-> "list"]

\* Task i waits inside the asyncio.timeout block.
InFlight(i) == pc[i] \in {"spawn", "init", "list", "close"}

\* The env mapping of the server of task i.
EnvOf(i) == Get(mcp_servers[i][2], "env", << >>)

\* C15 (last writer wins): while the tasks that declare variable v are all
\* running or not yet started, v holds the value declared by the one that
\* started last, whatever the earlier ones declared.
C15_LastWriterWins ==
    \A j \in Tasks, v \in EnvVars :
        ( /\ InFlight(j)
          /\ v \in DictKeys(EnvOf(j))
          /\ \A k \in Tasks \ {j} :
               v \in DictKeys(EnvOf(k)) =>
                   \/ k < j /\ InFlight(k)
                   \/ k > j /\ pc[k] = "created" )
        => environ[v] = DictGet(EnvOf(j), v, None)

\* C15 (the race is reachable): two running tasks declare different values
\* for one variable, and the subprocess of one of them was spawned while
\* the variable held the value declared by the other.
C15_Witness ==
    \E i, j \in Tasks, v \in EnvVars :
        /\ i # j
        /\ InFlight(i) /\ InFlight(j)
        /\ v \in DictKeys(EnvOf(i)) /\ v \in DictKeys(EnvOf(j))
        /\ DictGet(EnvOf(i), v, None) # DictGet(EnvOf(j), v, None)
        /\ spawned[i]
        /\ spawnedForeign[i]
        /\ environ[v] = DictGet(EnvOf(j), v, None)

\* C16: a task that ran to a clean close has exactly the tools its server
\* reported, one entry per tool, in the server's order, with name,
\* description, inputSchema and annotations unchanged; and a result has
\* tools only if initialize had completed (list_tools is requested after).
C16_ToolsExhaustive ==
    \A i \in Tasks :
        /\ fate[i].how = "ok" =>
             /\ Len(result[i].tools) = Len(session[i].served)
             /\ \A n \in 1..Len(session[i].served) :
                  /\ result[i].tools[n].name = session[i].served[n].name
                  /\ result[i].tools[n].description = session[i].served[n].description
                  /\ result[i].tools[n].inputSchema = session[i].served[n].inputSchema
                  /\ result[i].tools[n].annotations = session[i].served[n].annotations
        /\ (pc[i] # "created" /\ result[i].tools # << >>) => session[i].initialized
        /\ session[i].served # << >> => session[i].initialized

\* A server reported two tools and its session closed cleanly; the result
\* is in the written report.
C16_Witness ==
    /\ Written
    /\ \E i \in Tasks :
         /\ fate[i].how = "ok"
         /\ Len(session[i].served) = 2
         /\ \E n \in 1..Len(output.servers) : output.servers[n].tools = result[i].tools

\* C17: the second of two dry runs on the same configuration writes the
\* same servers array as the first: same entries, same order, same field
\* values, whatever the first run left behind.
C17_DryRunIdempotent ==
    (prevOutput # NoFile /\ mainPc = "written") =>
        output.servers = prevOutput.servers

\* A second dry run has written a report with two servers.
C17_Witness ==
    /\ prevOutput # NoFile
    /\ mainPc = "written"
    /\ args.dry_run
    /\ Len(output.servers) = 2

\* C18: extract_server_tools restores the environment exactly: once the
\* call has returned or raised, every variable has the value it had before
\* the call (absent again if it was absent), also when several servers set
\* the same variable; with set_env_vars false the environment is never
\* written.
C18_ExtractRestoresEnv ==
    /\ xt.pc \in {"returned", "raised"} => xt.environ = xt.environ0
    /\ (xt.pc # "idle" /\ ~xt.set_env_vars) => xt.environ = xt.environ0

\* C19: whenever a call of extract_tools_from_server ends by raising, at
\* that moment every environment variable the call had saved and written
\* has the value it had before the call wrote it.
C19_RaiseRestoresEnv ==
    [][\A i \in Tasks :
          (outcome[i] = "pending" /\ outcome'[i] \in ExceptionTypes) =>
              \A key \in DictKeys(original_env'[i]) :
                  environ'[key] = DictGet(original_env'[i], key, None)]_vars

\* The fields of a result as extract_tools_from_server builds it.
ServerResultFields == {"server_name", "command", "args", "env", "tools"}

\* The entries of the report that are results of a configured server.
WellFormedEntries ==
    {n \in 1..Len(output.servers) :
        /\ DOMAIN output.servers[n] = ServerResultFields
        /\ output.servers[n].server_name \in DictKeys(mcp_servers)}

====
